---- MODULE Spec2Model ----
(***************************************************************************)
(* Model of the background service worker of the PostHog event debugger   *)
(* (src/src/background.ts): the in-memory event buffer, its size budget,   *)
(* the lazy single-flight load from chrome.storage.local, the save/retry   *)
(* chain, and the three-action message listener.                           *)
(*                                                                         *)
(* JavaScript runs one task at a time.  Every action below is one task     *)
(* together with the microtasks (promise continuations) it triggers, which *)
(* is the granularity at which the code can be interleaved.                *)
(*                                                                         *)
(* Sizes are counted in units of 1 MiB (string lengths in Mi-characters),  *)
(* so the ceiling of 8 * 1024 * 1024 bytes is 8 and the prune amount 2.    *)
(***************************************************************************)
EXTENDS Integers, Sequences, FiniteSets, TLC

\* ---------------------------------------------------------------- bounds
MaxRequests == 3      \* messages delivered to the listener in one run
MaxRestarts == 1      \* service worker restarts in one run

\* ------------------------------------------------------- program constants
EVENTS_STORAGE_KEY == "capturedEvents"
MAX_STORED_SIZE_BYTES == 8
CLEANUP_SIZE_BYTES == 2
MAX_ATTEMPTS == 6

\* ------------------------------------------------------------ JS values
NULL == "null"
UNDEFINED == "undefined"
ABSENT == "absent"          \* the key is not present on the object

\* JSON documents a payload can decode to.  "zero" stands for the falsy
\* scalars 0, false and "".
Docs == {"a", "b", "big", "huge", NULL, "zero"}

\* JavaScript truthiness of a decoded JSON value
Truthy(v) == v \notin {NULL, "zero", UNDEFINED, ABSENT}

\* JSON.stringify(doc).length
JsonLen(doc) ==
  CASE doc = "a" -> 1
    [] doc = "b" -> 1
    [] doc = "big" -> 3
    [] doc = "huge" -> 5
    [] OTHER -> 0

\* String.length of the metadata strings
StrLen(s) == IF s = "https://long.example/path" THEN 1 ELSE 0

\* String.length of an id `${Date.now()}-${Math.random()}`, numbered here by
\* order of creation
IdLen(id) == 0

\* request.data values: gzip bodies, and a short and a long undecodable body
Payloads ==
  {"gzA", "gzAB", "gzBig", "gzHuge", "gzNullList", "gzZero", "gzEmpty", "bad", "badBig"}

\* the payloads fed to the worker in the runs that assume fair callbacks
FairPayloads == {"gzAB", "bad"}

\* the payloads fed to the worker in the runs that include restarts
RestartPayloads == {"gzAB", "gzBig", "bad"}

\* request.data.length
ByteLen(p) ==
  CASE p = "bad" -> 1
    [] p = "badBig" -> 7
    [] OTHER -> 0

\* request.url values
Urls == {"https://a.example/"}

Max(a, b) == IF a >= b THEN a ELSE b

\* ------------------------------------------------------------- variables
VARIABLES
  events,            \* let events: PostHogEvent[]  (index 1 = head = newest)
  currentSizeBytes,  \* let currentSizeBytes
  isLoaded,          \* let isLoaded
  loadPromise,       \* let loadPromise: "null" | "pending" | "fulfilled" | "rejected"
  stored,            \* chrome.storage.local value under EVENTS_STORAGE_KEY
  backing,           \* chrome.storage calls issued and not yet called back (FIFO)
  reqs,              \* messages received in this process lifetime
  nextId,            \* source of fresh event ids
  loadCalls,         \* getStorage calls made in this process lifetime
  saveLog,           \* outcome of the most recently issued setStorage call
  restarts,          \* restarts so far
  expect,            \* what the last restart found about the last save
  last,              \* what the last task did
  popup,             \* popup.ts: module state, rendered tabs, renderEvents calls in flight
  page               \* injected.ts: the calls made to the wrapped window.fetch

vars == <<events, currentSizeBytes, isLoaded, loadPromise, stored, backing,
          reqs, nextId, loadCalls, saveLog, restarts, expect, last, popup, page>>

\* ---------------------------------------------------------- pure helpers

\* extractDomain(url): hostname of the URL, the raw string if it has none
extractDomain(url) ==
  CASE url = "https://a.example/" -> "a.example"
    [] url = "https://long.example/path" -> "long.example"
    [] OTHER -> url

\* decodePostHogEvent(rawData): pako.ungzip then JSON.parse; threw = TRUE when
\* either step throws.  isArray/items describe the parsed JSON value.
decodePostHogEvent(p) ==
  CASE p = "gzA" -> [threw |-> FALSE, isArray |-> FALSE, items |-> <<"a">>, message |-> ""]
    [] p = "gzAB" -> [threw |-> FALSE, isArray |-> TRUE, items |-> <<"a", "b">>, message |-> ""]
    [] p = "gzBig" -> [threw |-> FALSE, isArray |-> FALSE, items |-> <<"big">>, message |-> ""]
    [] p = "gzHuge" -> [threw |-> FALSE, isArray |-> FALSE, items |-> <<"huge">>, message |-> ""]
    [] p = "gzNullList" -> [threw |-> FALSE, isArray |-> TRUE, items |-> <<NULL>>, message |-> ""]
    [] p = "gzZero" -> [threw |-> FALSE, isArray |-> FALSE, items |-> <<"zero">>, message |-> ""]
    [] p = "gzEmpty" -> [threw |-> FALSE, isArray |-> TRUE, items |-> <<>>, message |-> ""]
    [] OTHER -> [threw |-> TRUE, isArray |-> FALSE, items |-> <<>>, message |-> "Unknown error"]

\* estimateEventSize(event)
estimateEventSize(event) ==
  LET decodedSize == IF Truthy(event.decoded) THEN JsonLen(event.decoded) * 2 ELSE 0
      rawDataSize == IF event.rawData \notin {ABSENT, UNDEFINED, NULL}
                     THEN ByteLen(event.rawData) ELSE 0
      metadataSize == (StrLen(event.url) + IdLen(event.id) + StrLen(event.timestamp)
                       + StrLen(event.domain)) * 2
  IN decodedSize + rawDataSize + metadataSize

RECURSIVE SumSizes(_)
\* events.reduce((sum, event) => sum + estimateEventSize(event), 0)
SumSizes(evs) ==
  IF evs = <<>> THEN 0 ELSE estimateEventSize(Head(evs)) + SumSizes(Tail(evs))

\* a load that leaves currentSizeBytes at its initial value
recomputeSizeSkipped(evs) == 0

\* recomputeSize()
recomputeSize(evs) == SumSizes(evs)

\* cleanupOldEvents with events.shift() in place of events.pop(): one record
\* is taken from the head
PopLoopShift(evs, freedBytes, removed, bytesToFree) ==
  IF freedBytes < bytesToFree /\ Len(evs) > 0
  THEN [events |-> Tail(evs),
        freedBytes |-> freedBytes + estimateEventSize(Head(evs)),
        removed |-> removed + 1]
  ELSE [events |-> evs, freedBytes |-> freedBytes, removed |-> removed]

\* cleanupOldEvents with `if` in place of `while`: at most one record is popped
PopLoopOnce(evs, freedBytes, removed, bytesToFree) ==
  IF freedBytes < bytesToFree /\ Len(evs) > 0
  THEN [events |-> SubSeq(evs, 1, Len(evs) - 1),
        freedBytes |-> freedBytes + estimateEventSize(evs[Len(evs)]),
        removed |-> removed + 1]
  ELSE [events |-> evs, freedBytes |-> freedBytes, removed |-> removed]

RECURSIVE PopLoop(_, _, _, _)
\* the while loop of cleanupOldEvents: events.pop() removes the tail
PopLoop(evs, freedBytes, removed, bytesToFree) ==
  IF freedBytes < bytesToFree /\ Len(evs) > 0
  THEN PopLoop(SubSeq(evs, 1, Len(evs) - 1),
               freedBytes + estimateEventSize(evs[Len(evs)]),
               removed + 1, bytesToFree)
  ELSE [events |-> evs, freedBytes |-> freedBytes, removed |-> removed]

\* a cleanupOldEvents that pops the records and leaves currentSizeBytes alone
cleanupOldEventsKeepsTotal(st, bytesToFree, kind) ==
  LET r == PopLoop(st.events, 0, 0, bytesToFree)
  IN [st EXCEPT !.events = r.events,
                !.log = [@ EXCEPT !.evict = kind, !.removed = r.removed,
                                  !.freed = r.freedBytes, !.asked = bytesToFree,
                                  !.at = st.currentSizeBytes,
                                  !.lastFreed = IF r.removed = 0 THEN 0
                                                ELSE estimateEventSize(st.events[Len(r.events) + 1]),
                                  !.left = Len(r.events),
                                  !.after = st.currentSizeBytes]]

\* a cleanupOldEvents whose loop tests `freedBytes <= bytesToFree`
cleanupOldEventsOneMore(st, bytesToFree, kind) ==
  LET r == PopLoop(st.events, 0, 0, bytesToFree + 1)
  IN [st EXCEPT !.events = r.events,
                !.currentSizeBytes = Max(0, st.currentSizeBytes - r.freedBytes),
                !.log = [@ EXCEPT !.evict = kind, !.removed = r.removed,
                                  !.freed = r.freedBytes, !.asked = bytesToFree,
                                  !.at = st.currentSizeBytes,
                                  !.lastFreed = IF r.removed = 0 THEN 0
                                                ELSE estimateEventSize(st.events[Len(r.events) + 1]),
                                  !.left = Len(r.events),
                                  !.after = Max(0, st.currentSizeBytes - r.freedBytes)]]

\* cleanupOldEvents(bytesToFree) applied to a machine state
cleanupOldEvents(st, bytesToFree, kind) ==
  LET r == PopLoop(st.events, 0, 0, bytesToFree)
  IN [st EXCEPT !.events = r.events,
                !.currentSizeBytes = Max(0, st.currentSizeBytes - r.freedBytes),
                !.log = [@ EXCEPT !.evict = kind, !.removed = r.removed,
                                  !.freed = r.freedBytes, !.asked = bytesToFree,
                                  !.at = st.currentSizeBytes,
                                  !.lastFreed = IF r.removed = 0 THEN 0
                                                ELSE estimateEventSize(st.events[Len(r.events) + 1]),
                                  !.left = Len(r.events),
                                  !.after = Max(0, st.currentSizeBytes - r.freedBytes)]]

\* what chrome.storage keeps of a value: keys holding undefined are dropped
SerializeEvent(e) == [e EXCEPT !.error = IF @ = UNDEFINED THEN ABSENT ELSE @]

Serialize(evs) == [i \in 1..Len(evs) |-> SerializeEvent(evs[i])]

\* ------------------------------------------------------- machine states
\* The operators below transform a record st that holds the program state:
\* events, currentSizeBytes, isLoaded, loadPromise, backing, reqs, nextId,
\* and the bookkeeping fields saveLog and log.

NoResp == [answered |-> FALSE, success |-> FALSE]

EmptyLog(act) ==
  [act |-> act, evict |-> "none", removed |-> 0, freed |-> 0, asked |-> 0,
   inserted |-> 0, sizeBefore |-> 0, lenBefore |-> 0, attempts |-> 0, served |-> 0, got |-> <<>>,
   req |-> 0, failed |-> "-", batch |-> 0, insertedSize |-> 0, payload |-> "-",
   at |-> 0, lastFreed |-> 0, left |-> 0, after |-> 0]

\* setStorage({ capturedEvents: events }): the call is handed to the browser
\* with a copy of the current list; chrome.storage serves calls in order.
setStorage(st, owner, attempts) ==
  [st EXCEPT !.backing = [i \in 1..Len(@) |-> [@[i] EXCEPT !.latest = FALSE]]
                         \o <<[op |-> "set", data |-> Serialize(st.events), owner |-> owner,
                               attempts |-> attempts, latest |-> TRUE]>>,
             !.saveLog = [status |-> "inflight", data |-> Serialize(st.events)]]

\* getStorage([EVENTS_STORAGE_KEY])
getStorage(st) ==
  [st EXCEPT !.backing = @ \o <<[op |-> "get", data |-> <<>>, owner |-> 0,
                                 attempts |-> 0, latest |-> FALSE]>>]

\* sendResponse({ success }) of request i
Respond(st, i, success) ==
  [st EXCEPT !.reqs[i].status = "done",
             !.reqs[i].resp = [answered |-> TRUE, success |-> success]]

\* sendResponse({ events }) of request i; log.got keeps the lists sent in the
\* present task together with the running total at that moment
RespondEvents(st, i, evs) ==
  [st EXCEPT !.reqs[i].status = "done",
             !.reqs[i].resp = [answered |-> TRUE, success |-> TRUE],
             !.log.got = Append(@, [req |-> i, events |-> evs,
                                    total |-> st.currentSizeBytes])]

\* a persistEventsWithTrim whose attempts counter is kept from the chain that
\* was exhausted before
persistEventsWithTrimNoReset(st, owner) == setStorage(st, owner, MAX_ATTEMPTS - 1)

\* persistEventsWithTrim(), up to its first await: attempts = 0, first save
persistEventsWithTrim(st, owner) == setStorage(st, owner, 0)

\* one new PostHogEvent of the success branch (lines 180-190)
DecodedEvent(id, req, decodedEvent) ==
  [id |-> id, timestamp |-> req.timestamp, url |-> req.url, domain |-> extractDomain(req.url),
   rawData |-> ABSENT, decoded |-> decodedEvent, error |-> UNDEFINED]

\* the PostHogEvent of the failure branch (lines 193-204)
ErrorEvent(id, req, error) ==
  [id |-> id, timestamp |-> req.timestamp, url |-> req.url, domain |-> extractDomain(req.url),
   rawData |-> req.data, decoded |-> NULL, error |-> error]

\* events.push(event) in place of events.unshift(event)
UnshiftAtTail(st, event) ==
  [st EXCEPT !.events = @ \o <<event>>,
             !.currentSizeBytes = @ + estimateEventSize(event),
             !.nextId = @ + 1,
             !.log.inserted = @ + 1]

\* currentSizeBytes += estimateEventSize(event); events.unshift(event)
Unshift(st, event) ==
  [st EXCEPT !.events = <<event>> \o @,
             !.currentSizeBytes = @ + estimateEventSize(event),
             !.nextId = @ + 1,
             !.log.inserted = @ + 1]

\* a handler that stores the first document of a batch and drops the rest
InsertAllFirstOnly(st, req, eventsToAdd) ==
  IF eventsToAdd = <<>> THEN st
  ELSE Unshift(st, DecodedEvent(st.nextId, req, Head(eventsToAdd)))

RECURSIVE InsertAll(_, _, _)
\* for (const decodedEvent of eventsToAdd) { ... }
InsertAll(st, req, eventsToAdd) ==
  IF eventsToAdd = <<>> THEN st
  ELSE InsertAll(Unshift(st, DecodedEvent(st.nextId, req, Head(eventsToAdd))),
                 req, Tail(eventsToAdd))

\* an over-budget check that asks for the overshoot alone
EvictOverflowNoHeadroom(st, ceiling, cleanup, kind) ==
  IF st.currentSizeBytes > ceiling
  THEN cleanupOldEvents(st, st.currentSizeBytes - ceiling, kind)
  ELSE st

\* an over-budget check that never evicts the record at the head
EvictOverflowKeepsNewest(st, ceiling, cleanup, kind) ==
  IF st.currentSizeBytes > ceiling
  THEN LET s1 == cleanupOldEvents(st, st.currentSizeBytes - ceiling + cleanup, kind)
       IN IF s1.events = <<>>
          THEN [s1 EXCEPT !.events = <<st.events[1]>>,
                          !.currentSizeBytes = recomputeSize(<<st.events[1]>>)]
          ELSE s1
  ELSE st

\* the over-budget check after the inserts (lines 207-209)
EvictOverflow(st, ceiling, cleanup, kind) ==
  IF st.currentSizeBytes > ceiling
  THEN cleanupOldEvents(st, st.currentSizeBytes - ceiling + cleanup, kind)
  ELSE st

\* a handler whose over-budget check runs before its inserts are made
CaptureMutationEvictsFirst(st, req, ceiling, cleanup) ==
  LET d == decodePostHogEvent(req.data)
      batchTruthy == ~d.threw /\ (d.isArray \/ Truthy(d.items[1]))
      error == IF d.threw THEN d.message ELSE UNDEFINED
      errorTruthy == error \notin {UNDEFINED, ""}
      s0 == EvictOverflow([st EXCEPT !.log.sizeBefore = st.currentSizeBytes,
                                     !.log.lenBefore = Len(st.events),
                                     !.log.failed = IF d.threw THEN req.data ELSE "-",
                                     !.log.payload = req.data],
                          ceiling, cleanup, "capture")
      s1 == IF batchTruthy /\ ~errorTruthy THEN InsertAll(s0, req, d.items)
            ELSE IF errorTruthy THEN Unshift(s0, ErrorEvent(s0.nextId, req, error))
            ELSE s0
  IN [s1 EXCEPT !.log.batch = s1.nextId - st.nextId,
                !.log.insertedSize = s1.currentSizeBytes - st.currentSizeBytes]

\* the synchronous part of the captureEvent handler (lines 164-209)
CaptureMutation(st, req, ceiling, cleanup) ==
  LET d == decodePostHogEvent(req.data)
      batchTruthy == ~d.threw /\ (d.isArray \/ Truthy(d.items[1]))
      error == IF d.threw THEN d.message ELSE UNDEFINED
      errorTruthy == error \notin {UNDEFINED, ""}
      s0 == [st EXCEPT !.log.sizeBefore = st.currentSizeBytes,
                       !.log.lenBefore = Len(st.events),
                       !.log.failed = IF d.threw THEN req.data ELSE "-",
                       !.log.payload = req.data]
      s1 == IF batchTruthy /\ ~errorTruthy THEN InsertAll(s0, req, d.items)
            ELSE IF errorTruthy THEN Unshift(s0, ErrorEvent(s0.nextId, req, error))
            ELSE s0
      s2 == [s1 EXCEPT !.log.batch = s1.nextId - st.nextId,
                       !.log.insertedSize = s1.currentSizeBytes - st.currentSizeBytes]
  IN EvictOverflow(s2, ceiling, cleanup, "capture")

\* a clearEvents handler that saves and answers without emptying the buffer
HandleFulfilledClearKeeps(st, i) ==
  LET req == st.reqs[i]
      started == [st EXCEPT !.reqs[i].status = "persisting", !.reqs[i].data = "-"]
  IN CASE req.action = "getEvents" -> RespondEvents(st, i, Serialize(st.events))
       [] req.action = "clearEvents" ->
            persistEventsWithTrim([started EXCEPT !.log.act = "clear"], i)
       [] OTHER ->
            persistEventsWithTrim(
              CaptureMutation([started EXCEPT !.log.act = "capture", !.log.req = i], req,
                              MAX_STORED_SIZE_BYTES, CLEANUP_SIZE_BYTES), i)

\* the .then callback of request i once ensureEventsLoaded() has resolved
HandleFulfilled(st, i) ==
  LET req == st.reqs[i]
      started == [st EXCEPT !.reqs[i].status = "persisting", !.reqs[i].data = "-"]
  IN CASE req.action = "getEvents" -> RespondEvents(st, i, Serialize(st.events))
       [] req.action = "clearEvents" ->
            persistEventsWithTrim([started EXCEPT !.events = <<>>, !.currentSizeBytes = 0,
                                                  !.log.act = "clear"], i)
       [] OTHER ->
            persistEventsWithTrim(
              CaptureMutation([started EXCEPT !.log.act = "capture", !.log.req = i], req,
                              MAX_STORED_SIZE_BYTES, CLEANUP_SIZE_BYTES), i)

\* a .catch callback that reports the failed load to the sender of a capture
HandleRejectedReportsFailure(st, i) ==
  LET req == st.reqs[i]
  IN CASE req.action = "getEvents" -> RespondEvents(st, i, <<>>)
       [] OTHER -> Respond(st, i, FALSE)

\* the .catch callback of request i when ensureEventsLoaded() rejected
HandleRejected(st, i) ==
  LET req == st.reqs[i]
  IN CASE req.action = "getEvents" -> RespondEvents(st, i, <<>>)
       [] req.action = "clearEvents" -> Respond(st, i, FALSE)
       [] OTHER -> Respond(st, i, TRUE)

RECURSIVE RunWaiters(_, _)
\* the reactions registered on loadPromise run in the order the requests came
RunWaiters(st, i) ==
  IF i > Len(st.reqs) THEN st
  ELSE IF st.reqs[i].status # "waiting" THEN RunWaiters(st, i + 1)
  ELSE LET s1 == [st EXCEPT !.log.served = @ + 1]
       IN IF st.loadPromise = "rejected" THEN RunWaiters(HandleRejected(s1, i), i + 1)
          ELSE RunWaiters(HandleFulfilled(s1, i), i + 1)

\* a persistEventsWithTrim() that throws when it gives up, under a handler
\* that has no .catch: the request of a chain that failed is never answered
PersistReturnThrows(st, owner, ok) ==
  IF owner = 0
  THEN RunWaiters([st EXCEPT !.isLoaded = TRUE, !.loadPromise = "fulfilled"], 1)
  ELSE IF ok THEN Respond([st EXCEPT !.reqs[owner].chainOk = ok], owner, TRUE)
  ELSE st

\* persistEventsWithTrim() returns to its caller
PersistReturn(st, owner, ok) ==
  IF owner = 0
  THEN RunWaiters([st EXCEPT !.isLoaded = TRUE, !.loadPromise = "fulfilled"], 1)
  ELSE LET s1 == [st EXCEPT !.reqs[owner].chainOk = ok]
       IN Respond(s1, owner, TRUE)

\* the catch block without the `events.length === 0` early return
PersistCatchNoEmptyCheck(st, owner, attemptsBefore) ==
  LET attempts == attemptsBefore + 1
      s0 == [st EXCEPT !.log.sizeBefore = st.currentSizeBytes,
                       !.log.lenBefore = Len(st.events),
                       !.log.attempts = attempts]
      s1 == cleanupOldEvents(s0, Max(CLEANUP_SIZE_BYTES, st.currentSizeBytes \div 4), "retry")
  IN IF attempts < MAX_ATTEMPTS THEN setStorage(s1, owner, attempts)
     ELSE PersistReturn(s1, owner, FALSE)

\* a catch block that prunes a quarter of the total, without the floor of
\* CLEANUP_SIZE_BYTES
PersistCatchQuarter(st, owner, attemptsBefore) ==
  LET attempts == attemptsBefore + 1
      s0 == [st EXCEPT !.log.sizeBefore = st.currentSizeBytes,
                       !.log.lenBefore = Len(st.events),
                       !.log.attempts = attempts]
  IN IF Len(st.events) = 0 THEN PersistReturn(s0, owner, FALSE)
     ELSE LET s1 == cleanupOldEvents(s0, st.currentSizeBytes \div 4, "retry")
          IN IF attempts < MAX_ATTEMPTS THEN setStorage(s1, owner, attempts)
             ELSE PersistReturn(s1, owner, FALSE)

\* a catch block that retries the save without pruning the list first
PersistCatchNoTrim(st, owner, attemptsBefore) ==
  LET attempts == attemptsBefore + 1
      s0 == [st EXCEPT !.log.sizeBefore = st.currentSizeBytes,
                       !.log.lenBefore = Len(st.events),
                       !.log.attempts = attempts]
      s2 == IF owner = 0 THEN s0 ELSE [s0 EXCEPT !.reqs[owner].exhausted = TRUE]
  IN IF Len(st.events) = 0 THEN PersistReturn(s0, owner, FALSE)
     ELSE IF attempts < MAX_ATTEMPTS THEN setStorage(s0, owner, attempts)
     ELSE PersistReturn(s2, owner, FALSE)

\* the catch block of persistEventsWithTrim (lines 72-81) and the loop test
PersistCatch(st, owner, attemptsBefore) ==
  LET attempts == attemptsBefore + 1
      s0 == [st EXCEPT !.log.sizeBefore = st.currentSizeBytes,
                       !.log.lenBefore = Len(st.events),
                       !.log.attempts = attempts]
  IN IF Len(st.events) = 0 THEN PersistReturn(s0, owner, FALSE)
     ELSE LET s1 == cleanupOldEvents(s0, Max(CLEANUP_SIZE_BYTES, st.currentSizeBytes \div 4),
                                     "retry")
              \* line 84: 'Failed to persist events after retries.'
              s2 == IF owner = 0 THEN s1 ELSE [s1 EXCEPT !.reqs[owner].exhausted = TRUE]
          IN IF attempts < MAX_ATTEMPTS THEN setStorage(s1, owner, attempts)
             ELSE PersistReturn(s2, owner, FALSE)

\* a loadPromise body that marks the store ready before the trimmed list is saved
LoadBodyReadyFirst(st, storedValue) ==
  LET evs == IF storedValue.isArray THEN storedValue.val ELSE <<>>
      s1 == [st EXCEPT !.events = evs, !.currentSizeBytes = recomputeSize(evs),
                       !.log.sizeBefore = recomputeSize(evs), !.log.lenBefore = Len(evs)]
  IN IF s1.currentSizeBytes > MAX_STORED_SIZE_BYTES
     THEN persistEventsWithTrim(
            PersistReturn(
              cleanupOldEvents(s1, s1.currentSizeBytes - MAX_STORED_SIZE_BYTES
                                     + CLEANUP_SIZE_BYTES, "load"), 0, TRUE), 0)
     ELSE PersistReturn(s1, 0, TRUE)

\* a loadPromise body that trims a list above the ceiling by the overshoot only
LoadBodyNoHeadroom(st, storedValue) ==
  LET evs == IF storedValue.isArray THEN storedValue.val ELSE <<>>
      s1 == [st EXCEPT !.events = evs, !.currentSizeBytes = recomputeSize(evs),
                       !.log.sizeBefore = recomputeSize(evs), !.log.lenBefore = Len(evs)]
  IN IF s1.currentSizeBytes > MAX_STORED_SIZE_BYTES
     THEN persistEventsWithTrim(
            cleanupOldEvents(s1, s1.currentSizeBytes - MAX_STORED_SIZE_BYTES, "load"), 0)
     ELSE PersistReturn(s1, 0, TRUE)

\* the body of loadPromise once getStorage has called back (lines 93-102)
LoadBody(st, storedValue) ==
  LET evs == IF storedValue.isArray THEN storedValue.val ELSE <<>>
      s1 == [st EXCEPT !.events = evs, !.currentSizeBytes = recomputeSize(evs),
                       !.log.sizeBefore = recomputeSize(evs), !.log.lenBefore = Len(evs)]
  IN IF s1.currentSizeBytes > MAX_STORED_SIZE_BYTES
     THEN persistEventsWithTrim(
            cleanupOldEvents(s1, s1.currentSizeBytes - MAX_STORED_SIZE_BYTES + CLEANUP_SIZE_BYTES,
                             "load"), 0)
     ELSE PersistReturn(s1, 0, TRUE)

\* getStorage called back without a result: result[EVENTS_STORAGE_KEY] throws,
\* loadPromise rejects and isLoaded stays false
LoadThrows(st) == RunWaiters([st EXCEPT !.loadPromise = "rejected"], 1)

\* ensureEventsLoaded without the `if (loadPromise) return loadPromise` line
ensureEventsLoadedNoShare(st, i) ==
  IF st.isLoaded THEN HandleFulfilled(st, i)
  ELSE IF st.loadPromise = "rejected" THEN HandleRejected(st, i)
  ELSE [getStorage(st) EXCEPT !.loadPromise = "pending", !.loadCalls = @ + 1]

\* a listener that does not wait for ensureEventsLoaded() before it acts
ensureEventsLoadedNoWait(st, i) ==
  IF st.isLoaded THEN HandleFulfilled(st, i)
  ELSE IF st.loadPromise = "pending" THEN HandleFulfilled(st, i)
  ELSE IF st.loadPromise = "rejected" THEN HandleRejected(st, i)
  ELSE [getStorage(st) EXCEPT !.loadPromise = "pending", !.loadCalls = @ + 1]

\* ensureEventsLoaded() called by the listener for request i
ensureEventsLoaded(st, i) ==
  IF st.isLoaded THEN HandleFulfilled(st, i)
  ELSE IF st.loadPromise = "pending" THEN st
  ELSE IF st.loadPromise = "rejected" THEN HandleRejected(st, i)
  ELSE [getStorage(st) EXCEPT !.loadPromise = "pending", !.loadCalls = @ + 1]

\* ------------------------------------------------------------ the system

\* the program state as one record, and its write-back
Cur(act) ==
  [events |-> events, currentSizeBytes |-> currentSizeBytes, isLoaded |-> isLoaded,
   loadPromise |-> loadPromise, backing |-> backing, reqs |-> reqs, nextId |-> nextId,
   loadCalls |-> loadCalls, saveLog |-> saveLog, log |-> EmptyLog(act)]

Commit(st) ==
  /\ events' = st.events
  /\ currentSizeBytes' = st.currentSizeBytes
  /\ isLoaded' = st.isLoaded
  /\ loadPromise' = st.loadPromise
  /\ backing' = st.backing
  /\ reqs' = st.reqs
  /\ nextId' = st.nextId
  /\ loadCalls' = st.loadCalls
  /\ saveLog' = st.saveLog
  /\ last' = st.log

\* a stored record as chrome.storage returns it
StoredEvent(id, doc) ==
  SerializeEvent(DecodedEvent(id, [timestamp |-> "t", url |-> "https://a.example/"], doc))

\* values chrome.storage.local can hold under the key when the worker first
\* starts: nothing, a value that is not an array, a list written earlier, and a
\* list above the present ceiling (the case lines 97-100 provide for)
InitialStored ==
  { [isArray |-> FALSE, kind |-> "absent", val |-> <<>>],
    [isArray |-> FALSE, kind |-> "malformed", val |-> <<>>],
    [isArray |-> TRUE, kind |-> "list",
     val |-> <<StoredEvent(3, "a"), StoredEvent(2, "b"), StoredEvent(1, "a")>>],
    [isArray |-> TRUE, kind |-> "list",
     val |-> <<StoredEvent(3, "big"), StoredEvent(2, "a"), StoredEvent(1, "a")>>] }

NoExpect == [known |-> FALSE, data |-> <<>>, from |-> 0]

\* popup.ts after its module body ran (lines 5-11), before DOMContentLoaded:
\* no tab rendered, no renderEvents call in flight, no tab clicked yet
PopupInit ==
  [selectedDomain |-> NULL, domainAutoSelected |-> FALSE,
   display |-> "none", tabs |-> {}, phase |-> "init", renders |-> <<>>,
   userChoice |-> "none"]

\* injected.ts after window.fetch was replaced (lines 4-5): no call made yet
PageInit == [calls |-> <<>>]

Init ==
  /\ events = <<>>
  /\ currentSizeBytes = 0
  /\ isLoaded = FALSE
  /\ loadPromise = "null"
  /\ stored \in InitialStored
  /\ backing = <<>>
  /\ reqs = <<>>
  /\ nextId = 4
  /\ loadCalls = 0
  /\ saveLog = [status |-> "none", data |-> <<>>]
  /\ restarts = 0
  /\ expect = NoExpect
  /\ last = EmptyLog("init")
  /\ popup = PopupInit
  /\ page = PageInit

NewRequest(action, data, url) ==
  [action |-> action, data |-> data, url |-> url, timestamp |-> "t",
   status |-> "waiting", resp |-> NoResp, chainOk |-> FALSE, exhausted |-> FALSE]

\* chrome.runtime.onMessage listener: one message arrives
Receive(action, data, url) ==
  /\ Len(reqs) < MaxRequests
  /\ LET st == Cur(action)
         i == Len(reqs) + 1
         s1 == [st EXCEPT !.reqs = Append(@, NewRequest(action, data, url))]
     IN Commit(ensureEventsLoaded(s1, i))
  /\ UNCHANGED <<stored, restarts, expect, popup, page>>

GetEvents == Receive("getEvents", "-", "-")

ClearEvents == Receive("clearEvents", "-", "-")

CaptureEvent == \E p \in Payloads, u \in Urls : Receive("captureEvent", p, u)

\* chrome.storage.local.get calls back with the stored value
LoadResolves ==
  /\ backing # <<>> /\ Head(backing).op = "get"
  /\ LET st == [Cur("load") EXCEPT !.backing = Tail(@)]
     IN Commit(LoadBody(st, stored))
  /\ UNCHANGED <<stored, restarts, expect, popup, page>>

\* chrome.storage.local.get calls back with lastError set and no result
LoadFails ==
  /\ backing # <<>> /\ Head(backing).op = "get"
  /\ LET st == [Cur("loadfail") EXCEPT !.backing = Tail(@)]
     IN Commit(LoadThrows(st))
  /\ UNCHANGED <<stored, restarts, expect, popup, page>>

\* chrome.storage.local.set calls back without lastError: the value is stored
SaveSucceeds ==
  /\ backing # <<>> /\ Head(backing).op = "set"
  /\ LET h == Head(backing)
         st == [Cur("saved") EXCEPT !.backing = Tail(@),
                  !.saveLog.status = IF h.latest THEN "ok" ELSE @]
     IN /\ stored' = [isArray |-> TRUE, kind |-> "list", val |-> h.data]
        /\ Commit(PersistReturn(st, h.owner, TRUE))
  /\ UNCHANGED <<restarts, expect, popup, page>>

\* chrome.storage.local.set calls back with lastError: the promise rejects
SaveFails ==
  /\ backing # <<>> /\ Head(backing).op = "set"
  /\ LET h == Head(backing)
         st == [Cur("savefail") EXCEPT !.backing = Tail(@),
                  !.saveLog.status = IF h.latest THEN "failed" ELSE @]
     IN Commit(PersistCatch(st, h.owner, h.attempts))
  /\ UNCHANGED <<stored, restarts, expect, popup, page>>

\* the browser stops the idle service worker (no message being handled, no
\* storage call outstanding) and starts it again for the next message: the
\* module state is initialised anew (lines 9-12), chrome.storage.local is kept
Restart ==
  /\ restarts < MaxRestarts
  /\ backing = <<>>
  /\ restarts' = restarts + 1
  /\ events' = <<>>
  /\ currentSizeBytes' = 0
  /\ isLoaded' = FALSE
  /\ loadPromise' = "null"
  /\ loadCalls' = 0
  /\ expect' = [known |-> saveLog.status = "ok", data |-> saveLog.data, from |-> Len(reqs)]
  /\ saveLog' = [status |-> "none", data |-> <<>>]
  /\ last' = EmptyLog("restart")
  /\ UNCHANGED <<stored, backing, reqs, nextId, popup, page>>

Next ==
  \/ GetEvents
  \/ ClearEvents
  \/ CaptureEvent
  \/ LoadResolves
  \/ LoadFails
  \/ SaveSucceeds
  \/ SaveFails

Spec == Init /\ [][Next]_vars

\* The worker fed with the payloads of FairPayloads, under the assumption that
\* chrome.storage calls back for every call it was handed.
CaptureFair == \E p \in FairPayloads, u \in Urls : Receive("captureEvent", p, u)

\* chrome.storage.local calls back for the call at the head of its queue
StorageCallback == LoadResolves \/ LoadFails \/ SaveSucceeds \/ SaveFails

NextFair ==
  \/ GetEvents
  \/ ClearEvents
  \/ CaptureFair
  \/ LoadResolves
  \/ LoadFails
  \/ SaveSucceeds
  \/ SaveFails

\* Weak fairness of StorageCallback, WF_vars(StorageCallback), written out:
\* a callback is possible exactly when a call is outstanding, so
\* ENABLED <<StorageCallback>>_vars is backing # <<>>.
StorageCallsBack == []<>(backing = <<>>) \/ []<><<StorageCallback>>_vars

SpecFair == Init /\ [][NextFair]_vars /\ StorageCallsBack

\* The same worker observed across restarts, fed with the payloads of
\* RestartPayloads.
CaptureBeforeRestart == \E p \in RestartPayloads, u \in Urls : Receive("captureEvent", p, u)

NextRestart ==
  \/ GetEvents
  \/ ClearEvents
  \/ CaptureBeforeRestart
  \/ LoadResolves
  \/ LoadFails
  \/ SaveSucceeds
  \/ SaveFails
  \/ Restart

SpecRestart == Init /\ [][NextRestart]_vars

\* The insert-and-evict step of the capture handler run on its own, from an
\* empty buffer, with MAX_STORED_SIZE_BYTES = 2 and CLEANUP_SIZE_BYTES = 1.
Scenario == [ceiling |-> 2, cleanup |-> 1]

\* the payloads inserted in the scenario; the record made of "bad" is
\* estimated at 1
ScenarioPayloads == {"bad", "gzA", "gzAB", "gzNullList", "gzZero"}

InitScenario ==
  /\ events = <<>>
  /\ currentSizeBytes = 0
  /\ isLoaded = TRUE
  /\ loadPromise = "fulfilled"
  /\ stored = [isArray |-> FALSE, kind |-> "absent", val |-> <<>>]
  /\ backing = <<>>
  /\ reqs = <<>>
  /\ nextId = 1
  /\ loadCalls = 1
  /\ saveLog = [status |-> "none", data |-> <<>>]
  /\ restarts = 0
  /\ expect = NoExpect
  /\ last = EmptyLog("init")
  /\ popup = PopupInit
  /\ page = PageInit

\* lines 164-209 for one captured payload; reqs keeps the payloads in order
ScenarioInsert(p) ==
  /\ Len(reqs) < MaxRequests
  /\ LET req == [NewRequest("captureEvent", p, "https://a.example/") EXCEPT !.status = "done"]
         st == [Cur("capture") EXCEPT !.reqs = Append(@, req), !.log.req = Len(reqs) + 1]
     IN Commit(CaptureMutation(st, req, Scenario.ceiling, Scenario.cleanup))
  /\ UNCHANGED <<stored, restarts, expect, popup, page>>

NextScenario == \E p \in ScenarioPayloads : ScenarioInsert(p)

SpecScenario == InitScenario /\ [][NextScenario]_vars

\* ------------------------------------------------------------ properties

SetOps == {i \in 1..Len(backing) : backing[i].op = "set"}

GetOps == {i \in 1..Len(backing) : backing[i].op = "get"}

Waiting == {i \in 1..Len(reqs) : reqs[i].status = "waiting"}

IsSuffix(s, t) == Len(s) <= Len(t) /\ SubSeq(t, Len(t) - Len(s) + 1, Len(t)) = s

\* C1 (budget invariant): after the eviction step of every capture, of the
\* load and of every retry, the running total is at most the ceiling or the
\* buffer is empty.  Every state of the model is one in which the eviction
\* step of the last task has run.
C1_Budget == currentSizeBytes <= MAX_STORED_SIZE_BYTES \/ events = <<>>

\* a capture overflowed the ceiling, evicted, and left a non-empty buffer
C1_Witness ==
  /\ last.act = "capture" /\ last.evict = "capture" /\ last.removed > 0
  /\ events # <<>> /\ currentSizeBytes <= MAX_STORED_SIZE_BYTES

\* C2 (single-flight load): in one process lifetime getStorage is called at
\* most once, exactly once as soon as a request has arrived, and requests that
\* arrive while it is in flight add no second call.
C2_SingleFlight ==
  /\ loadCalls <= 1
  /\ Cardinality(GetOps) <= 1
  /\ (reqs # <<>> => loadCalls = 1)

\* get, clear and capture all arrived before the load resolved
C2_Witness ==
  /\ loadPromise = "pending" /\ loadCalls = 1
  /\ \E i, j, k \in Waiting :
       /\ reqs[i].action = "getEvents"
       /\ reqs[j].action = "clearEvents"
       /\ reqs[k].action = "captureEvent"

\* while the load has not settled every request is still waiting, unanswered
\* and without a save of its own
C3_BeforeLoad ==
  loadPromise \in {"null", "pending"} =>
    /\ \A i \in 1..Len(reqs) : reqs[i].status = "waiting" /\ ~reqs[i].resp.answered
    /\ \A i \in SetOps : backing[i].owner = 0
    /\ loadPromise = "null" => events = <<>>

\* the task in which getStorage calls back and the load completes
C3_OnLoad ==
  (/\ loadPromise = "pending" /\ loadPromise' = "fulfilled"
   /\ backing # <<>> /\ Head(backing).op = "get" /\ reqs # <<>>)
  => LET loaded == IF stored.isArray THEN stored.val ELSE <<>>
     IN /\ reqs[1].action = "getEvents" =>
             (last'.got # <<>> /\ last'.got[1].req = 1 /\ last'.got[1].events = loaded)
        /\ ((\A i \in 1..Len(reqs) : reqs[i].action # "clearEvents") /\ last'.evict = "none")
             => IsSuffix(loaded, Serialize(events'))

\* C3 (no request touches the buffer before the load has completed): while
\* the load has not settled every request is still waiting, unanswered and
\* without a save; and in the task in which the load completes the waiting
\* requests work on the loaded sequence: a get that came first returns it, and
\* if nothing was cleared or evicted it is the tail of the buffer afterwards.
C3_LoadedSnapshot == [](C3_BeforeLoad) /\ [][C3_OnLoad]_vars

\* three requests waited for the load, which found records; the get was
\* answered with them and the capture put its record in front of them
C3_Witness ==
  /\ isLoaded /\ Len(reqs) = 3 /\ last.served = 3
  /\ reqs[1].action = "getEvents" /\ reqs[2].action = "captureEvent"
  /\ reqs[3].action = "getEvents"
  /\ Len(last.got) = 2 /\ Len(last.got[1].events) = 3 /\ Len(last.got[2].events) = 4
  /\ Len(events) = 4 /\ events[1].id = 4

\* C4 (order invariant): of two records held in the buffer the one inserted
\* later is closer to the head.
C4_Order ==
  \A i, j \in 1..Len(events) : i < j => events[i].id > events[j].id

\* a batch was inserted, the overflow evicted, and two records or more remain
C4_Witness ==
  /\ last.act = "capture" /\ last.inserted >= 2 /\ last.removed > 0 /\ Len(events) >= 2

\* no save in flight is a seventh or later attempt of its chain
C5_AttemptCap == \A i \in SetOps : backing[i].attempts + 1 <= 6

\* the task in which a save is rejected
C5_OnFailure ==
  (backing # <<>> /\ Head(backing).op = "set" /\ last'.attempts > 0)
  => LET h == Head(backing)
         again == {i \in 1..Len(backing') : backing'[i].op = "set" /\ backing'[i].owner = h.owner}
     IN IF events # <<>> /\ h.attempts + 1 < 6
        THEN /\ again # {}
             /\ \A i \in again : backing'[i].attempts = h.attempts + 1 /\ i = Len(backing')
        ELSE /\ again = {}
             /\ h.owner > 0 => reqs'[h.owner].resp.answered
             /\ h.owner = 0 => isLoaded'

\* C5 (retry termination): no chain makes more than 6 save attempts; after a
\* failed attempt the chain makes a further attempt only if the buffer was not
\* empty and fewer than 6 attempts have failed, otherwise it has ended and its
\* caller goes on (the request is answered, the load is marked done).
C5_RetryTerminates == [](C5_AttemptCap) /\ [][C5_OnFailure]_vars

\* a chain ended after its sixth failed attempt
C5_Witness == last.act = "savefail" /\ last.attempts = 6 /\ last.removed > 0

Present(v) == v \notin {NULL, UNDEFINED, ABSENT}

\* C6 (error-record exclusivity): every record held in the buffer has exactly
\* one of: decoded present (non-null), or error present together with rawData.
C6_Exclusive ==
  \A i \in 1..Len(events) :
    LET e == events[i]
    IN Present(e.decoded) # (Present(e.error) /\ Present(e.rawData))

\* C7 (save serialization): at most one setStorage call is in flight.
C7_OneSaveInFlight == Cardinality(SetOps) <= 1

\* C8 (no stale overwrite): whenever no save is in flight and the most
\* recently issued save succeeded, the stored value is the in-memory sequence.
C8_DurableIsCurrent ==
  (isLoaded /\ SetOps = {} /\ saveLog.status = "ok") => stored.val = Serialize(events)

\* C9 (clear reports the outcome): a clear answered with success = true had its
\* save of the emptied sequence stored.
C9_ClearReportsOutcome ==
  \A i \in 1..Len(reqs) :
    (reqs[i].action = "clearEvents" /\ reqs[i].resp.answered /\ reqs[i].resp.success)
      => reqs[i].chainOk

\* the first request of the present lifetime is a get and is answered in the
\* present task, and the last save issued before the restart had succeeded
\* within the ceiling
FirstGetAfterRestart ==
  /\ restarts > 0 /\ expect.known
  /\ recomputeSize(expect.data) <= MAX_STORED_SIZE_BYTES
  /\ last.got # <<>> /\ last.got[1].req = expect.from + 1

C11_CaptureAlwaysSuccess ==
  \A i \in 1..Len(reqs) :
    (reqs[i].action = "captureEvent" /\ reqs[i].resp.answered) => reqs[i].resp.success

\* the load was rejected and a capture that waited for it has been answered
C11_Witness ==
  /\ loadPromise = "rejected" /\ last.act = "loadfail" /\ last.served >= 1
  /\ \E i \in 1..Len(reqs) : reqs[i].action = "captureEvent" /\ reqs[i].resp.answered

\* C12 (response liveness): when chrome.storage calls back for every call,
\* every request received is eventually answered, whatever the outcomes of the
\* load and of the saves.
C12_EveryRequestAnswered ==
  \A i \in 1..MaxRequests :
    (Len(reqs) >= i) ~> (Len(reqs) >= i /\ reqs[i].resp.answered)

\* a clear and a capture have both been answered although the save of each
\* chain was rejected
C12_Witness ==
  \E i, j \in 1..Len(reqs) :
    /\ reqs[i].action = "clearEvents" /\ reqs[j].action = "captureEvent"
    /\ reqs[i].resp.answered /\ reqs[j].resp.answered
    /\ ~reqs[i].chainOk /\ ~reqs[j].chainOk /\ loadPromise = "fulfilled"

\* a load that has settled has left the store ready
C13_Settled == loadPromise \in {"fulfilled", "rejected"} => isLoaded

\* the task in which getStorage calls back with nothing usable: no value, a
\* value that is not a list, or no result at all
C13_OnLoad ==
  (/\ loadPromise = "pending" /\ backing # <<>> /\ Head(backing).op = "get"
   /\ loadPromise' # "pending"
   /\ (~stored.isArray \/ loadPromise' = "rejected"))
  => /\ isLoaded'
     /\ (reqs # <<>> /\ reqs[1].action = "getEvents") =>
           (last'.got # <<>> /\ last'.got[1].events = <<>> /\ last'.got[1].total = 0)
     /\ ((\A i \in 1..Len(reqs) : reqs[i].action # "clearEvents") /\ last'.evict = "none")
           => (Len(events') = last'.inserted /\ currentSizeBytes' = SumSizes(events'))

\* C13 (nothing stored, a stored value that is not a list, or a failing read
\* count as no prior data): the load leaves the store ready; a get that waited
\* first is answered with the empty list and total 0, and the captures that
\* waited are inserted into the empty buffer.
C13_NoPriorData == [](C13_Settled) /\ [][C13_OnLoad]_vars

\* C14 (undecodable bytes are kept as an error record): after a capture whose
\* bytes could not be decoded the buffer has gained exactly one record, which
\* is at the head, carries an error message, no decoded document, and as
\* rawData the bytes of the request; the request itself is not answered with a
\* failure.
C14_ErrorRecordKept ==
  (last.act = "capture" /\ last.failed # "-") =>
    /\ last.batch = 1
    /\ events # <<>>
    /\ events[1].id = nextId - 1
    /\ Present(events[1].error)
    /\ events[1].rawData = last.failed
    /\ ~Present(events[1].decoded)
    /\ reqs[last.req].resp.answered => reqs[last.req].resp.success

\* C17 (oversized record): after a capture that inserted a single record
\* whose estimate is larger than the ceiling, that record is alone in the
\* buffer; and the running total is above the ceiling in no other case.
C17_OversizedRetainedAlone ==
  /\ (last.act = "capture" /\ last.batch = 1 /\ last.insertedSize > MAX_STORED_SIZE_BYTES)
       => (Len(events) = 1 /\ events[1].id = nextId - 1)
  /\ currentSizeBytes > MAX_STORED_SIZE_BYTES
       => (Len(events) = 1 /\ estimateEventSize(events[1]) > MAX_STORED_SIZE_BYTES)

\* C15 (clear then get): a get answered in the present task, before which a
\* clear was received that has been answered and after which no capture was
\* received (requests are processed in the order they are received), was
\* answered with the empty list while the running total was 0, whether or not
\* the save of the cleared buffer was stored.
C15_ClearThenGet ==
  \A k \in 1..Len(last.got) :
    LET g == last.got[k]
    IN \A i \in 1..(g.req - 1) :
         (/\ reqs[i].action = "clearEvents" /\ reqs[i].resp.answered
          /\ \A j \in (i + 1)..(g.req - 1) : reqs[j].action # "captureEvent")
         => (g.events = <<>> /\ g.total = 0)

\* records were loaded, the save of the clear was rejected, so the stored list
\* still holds them, and the get that followed was answered with no records
C15_Witness ==
  /\ Len(reqs) = 2 /\ reqs[1].action = "clearEvents" /\ reqs[2].action = "getEvents"
  /\ reqs[1].resp.answered /\ ~reqs[1].chainOk /\ loadPromise = "fulfilled"
  /\ stored.val # <<>>
  /\ last.got # <<>> /\ last.got[1].req = 2 /\ last.got[1].events = <<>>

\* three records of estimate 1 have been inserted one after another into the
\* empty buffer
ThreeOneMiBInserts ==
  /\ Len(reqs) = 3
  /\ \A i \in 1..3 :
       /\ decodePostHogEvent(reqs[i].data).threw
       /\ estimateEventSize(ErrorEvent(i, reqs[i], "Unknown error")) = 1

\* C16 (scenario): with ceiling 2 and prune amount 1, after three inserts of
\* records of estimate 1 exactly one record is held, the newest, and the
\* running total is at most 2.
C16_Scenario ==
  ThreeOneMiBInserts =>
    /\ Len(events) = 1
    /\ events[1].id = 3
    /\ currentSizeBytes <= Scenario.ceiling

\* the third insert overflowed the ceiling and the two older records went
C16_Witness ==
  /\ ThreeOneMiBInserts
  /\ last.evict = "capture" /\ last.sizeBefore = 2 /\ last.asked = 2 /\ last.removed = 2
  /\ Len(events) = 1

\* C18 (running-total consistency): between tasks the running total is the
\* sum of the estimates of the records held, after any interleaving of load,
\* captures, overflow evictions, retry evictions of concurrent chains and
\* clears.
C18_TotalIsSum == currentSizeBytes = SumSizes(events)

\* two chains are in flight, a failed save of one of them has just evicted,
\* and records of a positive total are still held
C18_Witness ==
  /\ last.act = "savefail" /\ last.evict = "retry" /\ last.removed > 0
  /\ Cardinality(SetOps) >= 2
  /\ events # <<>> /\ currentSizeBytes > 0

\* the save chain of the load: calls of setStorage made by the loadPromise body
LoadChain == {i \in SetOps : backing[i].owner = 0}

\* while the chain of the load runs the store is not ready, no request has
\* been served, and the list being saved is within the ceiling
C19_WhileChainRuns ==
  LoadChain # {} =>
    /\ ~isLoaded /\ loadPromise = "pending"
    /\ \A i \in 1..Len(reqs) : reqs[i].status = "waiting" /\ ~reqs[i].resp.answered
    /\ \A i \in LoadChain : recomputeSize(backing[i].data) <= MAX_STORED_SIZE_BYTES

\* the task in which getStorage calls back with a list above the ceiling, and
\* the task in which the chain of the load ends (a task that receives no
\* request and takes the head of the queue is a callback of chrome.storage)
C19_OnLoad ==
  /\ (/\ backing # <<>> /\ Head(backing).op = "get" /\ backing' # backing
      /\ Len(reqs') = Len(reqs) /\ loadPromise' # "rejected"
      /\ stored.isArray /\ recomputeSize(stored.val) > MAX_STORED_SIZE_BYTES)
     => (/\ ~isLoaded' /\ last'.evict = "load" /\ last'.removed > 0
         /\ Len(backing') = 1 /\ backing'[1].op = "set" /\ backing'[1].owner = 0
         /\ backing'[1].data = events'
         /\ SubSeq(stored.val, 1, Len(events')) = events'
         /\ last'.served = 0)
  /\ (/\ backing # <<>> /\ Head(backing).op = "set" /\ Head(backing).owner = 0
      /\ Len(reqs') = Len(reqs) /\ isLoaded' /\ reqs # <<>> /\ reqs[1].action = "getEvents")
     => (/\ last'.got # <<>> /\ last'.got[1].req = 1
         /\ last'.got[1].total <= MAX_STORED_SIZE_BYTES
         /\ recomputeSize(last'.got[1].events) <= MAX_STORED_SIZE_BYTES)

\* C19 (over-ceiling load): a load that finds a list above the ceiling evicts
\* from its tail and saves the trimmed list before the store is ready; while
\* that chain runs no request, waiting or new, is served; and when the chain
\* has ended, stored or not, the first get is answered within the ceiling.
C19_TrimBeforeReady == [](C19_WhileChainRuns) /\ [][C19_OnLoad]_vars

\* the stored list was above the ceiling, the save of the trimmed list was
\* stored, and the get that had waited was answered with what was left
C19_Witness ==
  /\ last.act = "saved" /\ last.served >= 1 /\ isLoaded
  /\ reqs[1].action = "getEvents"
  /\ last.got # <<>> /\ last.got[1].req = 1
  /\ last.got[1].events # <<>> /\ last.got[1].events = stored.val

\* the task in which a save is rejected while records are held, and in which
\* no waiting request runs afterwards
C20_OnFailure ==
  (/\ backing # <<>> /\ Head(backing).op = "set" /\ last'.attempts > 0
   /\ events # <<>> /\ last'.served = 0)
  => LET h == Head(backing)
         kept == Len(events')
         gone == SubSeq(events, kept + 1, Len(events))
         freed == SumSizes(gone)
         enough(f) == f >= CLEANUP_SIZE_BYTES /\ 4 * f >= currentSizeBytes
     IN /\ last'.evict = "retry"
        /\ kept < Len(events) /\ events' = SubSeq(events, 1, kept)
        /\ enough(freed) \/ events' = <<>>
        /\ ~enough(freed - estimateEventSize(gone[1]))
        /\ currentSizeBytes' = currentSizeBytes - freed
        /\ h.attempts + 1 < MAX_ATTEMPTS =>
             LET n == backing'[Len(backing')]
             IN /\ n.op = "set" /\ n.owner = h.owner /\ n.attempts = h.attempts + 1
                /\ n.data = Serialize(events')

\* C20 (retry eviction amount): each time a save is rejected while records
\* are held, records are removed from the tail, and no more of them than
\* needed, until the estimates freed reach both CLEANUP_SIZE_BYTES and a
\* quarter of the running total of that moment, or the buffer is empty; the
\* attempt that follows, if the chain makes one, saves the list so trimmed.
C20_RetryEvicts == [][C20_OnFailure]_vars

\* a rejected save removed two records and left a third, and was followed by
\* another attempt
C20_Witness ==
  /\ last.act = "savefail" /\ last.evict = "retry" /\ last.removed >= 2
  /\ last.attempts < MAX_ATTEMPTS /\ last.served = 0
  /\ events # <<>> /\ SetOps # {}
  /\ backing[Len(backing)].data = Serialize(events)

\* the last eviction of the present task was made for an overflow of the
\* ceiling, after a capture or after the load
OverflowEviction == last.evict \in {"capture", "load"}

\* C21 as stated (overflow eviction amount): the amount an overflow eviction
\* is asked to free is the larger of CLEANUP_SIZE_BYTES and a quarter of the
\* running total of that moment.
C21_OverflowAmount ==
  OverflowEviction =>
    IF 4 * CLEANUP_SIZE_BYTES >= last.at THEN last.asked = CLEANUP_SIZE_BYTES
    ELSE 4 * last.asked = last.at

\* C21 as amended: the amount an overflow eviction is asked to free is the
\* overshoot above the ceiling plus CLEANUP_SIZE_BYTES.
C21_OverflowAmountIsOvershoot ==
  OverflowEviction =>
    /\ last.at > MAX_STORED_SIZE_BYTES
    /\ last.asked = last.at - MAX_STORED_SIZE_BYTES + CLEANUP_SIZE_BYTES

\* a capture took the total to 12, and 6 was asked for, where the larger of 2
\* and a quarter of 12 is 3
C21_Witness ==
  /\ last.act = "capture" /\ last.evict = "capture"
  /\ last.at = 12 /\ last.asked = 6

\* C22 as stated (eviction stop condition): an overflow eviction never removes
\* a record while the running total is already within the ceiling: before the
\* last record it removed was removed, the total was above the ceiling.
C22_StopsAtCeiling ==
  (OverflowEviction /\ last.removed > 0) =>
    (last.at - last.freed) + last.lastFreed > MAX_STORED_SIZE_BYTES

\* C22 as amended: an overflow eviction removes records from the tail until
\* the total is at most the ceiling less CLEANUP_SIZE_BYTES or no record is
\* left, and removes none once that is so: before the last record it removed
\* was removed, the total was above the ceiling less CLEANUP_SIZE_BYTES.
C22_StopsAtHeadroom ==
  (OverflowEviction /\ last.removed > 0) =>
    /\ (last.at - last.freed) + last.lastFreed > MAX_STORED_SIZE_BYTES - CLEANUP_SIZE_BYTES
    /\ last.at - last.freed <= MAX_STORED_SIZE_BYTES - CLEANUP_SIZE_BYTES \/ last.left = 0

\* an overflow eviction removed a record although the total had already come
\* down to the ceiling, and left records behind
C22_Witness ==
  /\ OverflowEviction /\ last.removed >= 2 /\ last.left > 0
  /\ (last.at - last.freed) + last.lastFreed <= MAX_STORED_SIZE_BYTES

\* the task of a captureEvent request received by the ready store
C23_OnCapture ==
  (/\ isLoaded /\ Len(reqs') = Len(reqs) + 1
   /\ reqs'[Len(reqs')].action = "captureEvent")
  => LET n == nextId' - nextId
         kept == Len(events')
         m == Len(reqs')
         save == backing'[Len(backing')]
     IN /\ \A i \in 1..Len(reqs) : reqs'[i] = reqs[i]
        /\ kept <= n + Len(events)
        /\ \A k \in 1..kept :
             IF k <= n THEN events'[k].id = nextId' - k ELSE events'[k] = events[k - n]
        /\ currentSizeBytes' <= MAX_STORED_SIZE_BYTES \/ events' = <<>>
        /\ Len(backing') = Len(backing) + 1
        /\ save.op = "set" /\ save.owner = m /\ save.attempts = 0
        /\ save.data = Serialize(events')
        /\ reqs'[m].status = "persisting" /\ ~reqs'[m].resp.answered

\* C23 (capture mutations do not interleave): a capture received by the ready
\* store makes its inserts and its eviction in one task, in which no other
\* request moves: afterwards the records of its batch that are left are next
\* to each other at the head, the records behind them are the ones held
\* before, in the same order, the total is within the ceiling, and the one save
\* the task issues carries that list.
C23_CaptureIsAtomic == [][C23_OnCapture]_vars

\* while the save of an earlier capture was outstanding a batch of two was
\* captured; its two records are at the head, in front of older ones
C23_Witness ==
  /\ last.act = "capture" /\ last.batch = 2 /\ isLoaded /\ last.served = 0
  /\ Cardinality(SetOps) >= 2
  /\ Len(events) >= 3
  /\ events[1].id = nextId - 1 /\ events[2].id = nextId - 2

\* the records held are the most recently inserted ones: the newest record
\* made is at the head and the ids behind it go down one by one
C24_MostRecent ==
  events # <<>> =>
    /\ events[1].id = nextId - 1
    /\ \A i \in 1..Len(events) : events[i].id = nextId - i

\* no task changes or reorders a record it keeps: a record held after the task
\* that was made before it is one held before the task, or one read from
\* chrome.storage by the load, and the records kept are the head of the
\* previous buffer unless the task cleared it
C24_OnTask ==
  /\ \A k \in 1..Len(events') :
       events'[k].id < nextId =>
         \/ \E j \in 1..Len(events) : events[j] = events'[k]
         \/ /\ ~isLoaded /\ backing # <<>> /\ Head(backing).op = "get"
            /\ \E j \in 1..Len(stored.val) : stored.val[j] = events'[k]
  /\ (isLoaded /\ last'.act # "clear") =>
       LET n == nextId' - nextId
       IN \A k \in 1..Len(events') : k > n => events'[k] = events[k - n]

\* C24 (eviction removes only the oldest records): the buffer is always the k
\* most recently inserted records, newest first, for some k (all records
\* inserted before a clear having gone with it), and the records an eviction
\* keeps are neither changed nor reordered.
C24_OldestFirst == [](C24_MostRecent) /\ [][C24_OnTask]_vars

\* a failed save evicted from a buffer of three or more and two or more stay
C24_Witness ==
  /\ last.act = "savefail" /\ last.evict = "retry" /\ last.removed > 0
  /\ last.lenBefore >= 3 /\ Len(events) >= 2

\* C25 (batch decode): after a capture whose payload decoded to a list of n
\* documents, or to a single object (n = 1), n records have been inserted, and
\* those of them that the eviction left are at the head, the last document of
\* the list first, each with its document as `decoded`, without rawData and
\* without error.
C25_BatchDecode ==
  LET d == decodePostHogEvent(last.payload)
      n == Len(d.items)
  IN (/\ last.act = "capture" /\ last.payload # "-"
      /\ ~d.threw /\ (d.isArray \/ Truthy(d.items[1])))
     => /\ last.batch = n
        /\ \A k \in 1..n :
             k <= Len(events) =>
               /\ events[k].id = nextId - k
               /\ events[k].decoded = d.items[n + 1 - k]
               /\ events[k].rawData = ABSENT
               /\ events[k].error \in {UNDEFINED, ABSENT}
        /\ Len(events) < n => last.evict = "capture"

\* a list of two documents was captured and both records are held, the second
\* document at the head
C25_Witness ==
  /\ last.act = "capture" /\ last.payload = "gzAB" /\ last.batch = 2
  /\ Len(events) >= 3
  /\ events[1].decoded = "b" /\ events[2].decoded = "a"

\* the chain of a capture or of a clear has ended without its list stored
ChainFailed ==
  /\ loadPromise = "fulfilled"
  /\ \E i \in 1..Len(reqs) :
       /\ reqs[i].action \in {"captureEvent", "clearEvents"}
       /\ reqs[i].resp.answered /\ ~reqs[i].chainOk

\* C26 (memory stays authoritative after a failed chain): once a chain has
\* ended in failure, a get received by the ready store is answered with the
\* list in memory, and a capture or clear received starts a chain of its own
\* whose first attempt, numbered 0 again, saves the list in memory.
C26_MemoryAuthoritative ==
  (ChainFailed /\ isLoaded /\ last.served = 0) =>
    LET m == Len(reqs)
    IN /\ last.act = "getEvents" =>
            /\ reqs[m].resp.answered
            /\ last.got = <<[req |-> m, events |-> Serialize(events),
                             total |-> currentSizeBytes]>>
       /\ last.act \in {"capture", "clear"} =>
            LET save == backing[Len(backing)]
            IN /\ backing # <<>>
               /\ save.op = "set" /\ save.owner = m /\ save.attempts = 0
               /\ save.data = Serialize(events)
               /\ reqs[m].status = "persisting"

\* the chain of a capture gave up after its sixth rejected save, and the get
\* that followed was answered with the list in memory, which is not the list
\* that chrome.storage holds
C26_Witness ==
  /\ ChainFailed /\ isLoaded /\ last.act = "getEvents"
  /\ \E i \in 1..Len(reqs) :
       /\ reqs[i].action = "captureEvent" /\ reqs[i].resp.answered
       /\ ~reqs[i].chainOk /\ reqs[i].exhausted
  /\ last.got # <<>>
  /\ last.got[1].events = Serialize(events)
  /\ stored.val # last.got[1].events

\* the first request was a capture handled by the ready store, and its chain
\* of saves has ended without one of them stored
FirstCaptureFailed ==
  /\ isLoaded /\ Len(reqs) >= 1
  /\ reqs[1].action = "captureEvent"
  /\ reqs[1].resp.answered /\ ~reqs[1].chainOk

\* C27 (failed persistence sheds memory too): when every save of a capture's
\* chain is rejected and no other request arrives meanwhile, the chain ends with
\* the list in memory empty and the total 0, before the sixth attempt is used
\* up; a get that follows is answered with the empty list.
C27_FailedSaveSheds ==
  FirstCaptureFailed =>
    /\ Len(reqs) = 1 =>
         /\ events = <<>> /\ currentSizeBytes = 0
         /\ ~reqs[1].exhausted
    /\ (Len(reqs) = 2 /\ last.act = "getEvents") =>
         last.got = <<[req |-> 2, events |-> <<>>, total |-> 0]>>

\* the only request was a capture; its first saves were rejected with records
\* still in memory, each retry pruned some, and the chain ended at the rejected
\* save that found the list empty, while chrome.storage still holds the older
\* records
C27_Witness ==
  /\ FirstCaptureFailed /\ Len(reqs) = 1
  /\ last.act = "savefail" /\ last.attempts >= 3 /\ last.lenBefore = 0
  /\ nextId > 4
  /\ events = <<>> /\ currentSizeBytes = 0
  /\ stored.isArray /\ stored.val # <<>>

\* C28 (retention of the newest record): after a capture that inserted one
\* record, that record is at the head of the list whenever its estimate is at
\* most MAX_STORED_SIZE_BYTES - CLEANUP_SIZE_BYTES; when the insert took the
\* total above MAX_STORED_SIZE_BYTES and the estimate is larger than that, the
\* eviction removed every record, the new one included.
C28_NewestRetention ==
  (last.act = "capture" /\ last.batch = 1) =>
    /\ last.insertedSize <= MAX_STORED_SIZE_BYTES - CLEANUP_SIZE_BYTES =>
         /\ events # <<>>
         /\ events[1].id = nextId - 1
    /\ ( /\ last.sizeBefore + last.insertedSize > MAX_STORED_SIZE_BYTES
         /\ last.insertedSize > MAX_STORED_SIZE_BYTES - CLEANUP_SIZE_BYTES ) =>
         /\ last.evict = "capture"
         /\ events = <<>> /\ currentSizeBytes = 0

\* a record of 7 MiB was put before 2 MiB of older records: the total of 9 MiB
\* had 3 MiB asked of the eviction, which took the older record and then the
\* new one, although the new record alone is below the ceiling
C28_Witness ==
  /\ last.act = "capture" /\ last.batch = 1
  /\ last.insertedSize = 7 /\ last.sizeBefore = 2
  /\ last.evict = "capture" /\ last.removed = 2
  /\ events = <<>>

\* C29 (headroom after an overflow eviction): every eviction made because the
\* total was above MAX_STORED_SIZE_BYTES, after a capture or after the load, was
\* asked for the overshoot plus CLEANUP_SIZE_BYTES, and it returned with the
\* total at most MAX_STORED_SIZE_BYTES - CLEANUP_SIZE_BYTES or with the list
\* empty.
C29_HeadroomAfterOverflow ==
  OverflowEviction =>
    /\ last.asked = (last.at - MAX_STORED_SIZE_BYTES) + CLEANUP_SIZE_BYTES
    /\ \/ last.after <= MAX_STORED_SIZE_BYTES - CLEANUP_SIZE_BYTES
       \/ last.left = 0

\* the list read from chrome.storage held 10 MiB: the load asked for 4 MiB,
\* and the eviction left one record and a total of 6 MiB
C29_Witness ==
  /\ last.act = "load" /\ last.evict = "load"
  /\ last.at = 10 /\ last.asked = 4
  /\ last.left = 1 /\ last.after = 6
  /\ currentSizeBytes = 6 /\ Len(events) = 1

\* C30 (every capture inserts): a capture handled by the ready store whose
\* payload does not decode to an empty list inserts at least one record before
\* the eviction runs, whatever value the payload decodes to and whatever
\* message the decoder threw.
C30_EveryCaptureInserts ==
  LET d == decodePostHogEvent(last.payload)
  IN (last.act = "capture" /\ ~(~d.threw /\ d.isArray /\ d.items = <<>>)) =>
       last.batch >= 1

\* ------------------------------------------------------------ popup.ts

\* most renderEvents calls and Clear handlers awaiting a reply at one time
MaxRenders == 2

\* event.domain values among the events the worker returns
Domains == {"a.example", "b.example", "c.example"}

\* Array.from(domains).sort() of getUniqueDomains (lines 227-235)
DomainOrder == <<"a.example", "b.example", "c.example">>

getUniqueDomains(S) == SelectSeq(DomainOrder, LAMBDA d : d \in S)

\* what chrome.tabs.query gives getCurrentTabDomain (lines 304-319): the
\* hostname of the active tab, or null
TabDomains == Domains \cup {NULL}

\* the start of a run in which only the popup or the page acts: the worker
\* is in its initial state, with nothing in chrome.storage
InitIdle == Init /\ stored.kind = "absent"

bgVars == <<events, currentSizeBytes, isLoaded, loadPromise, stored, backing,
            reqs, nextId, loadCalls, saveLog, restarts, expect, last>>

\* renderEvents() up to its `await getEvents()` (lines 323-332)
renderEvents(p, by) ==
  [p EXCEPT !.renders = Append(@, [pc |-> "getEvents", by |-> by, domains |-> <<>>])]

\* renderEvents call k returns to its caller; the DOMContentLoaded handler
\* then registers its listeners and the 2-second interval (lines 522-578)
RenderReturns(p, k) ==
  [p EXCEPT !.renders = SubSeq(@, 1, k - 1) \o SubSeq(@, k + 1, Len(@)),
            !.phase = IF p.renders[k].by = "init" THEN "ready" ELSE @]

\* lines 263-300 of renderDomainTabs: the tabs are written and given their
\* click handlers
WriteTabs(p, domains) ==
  [p EXCEPT !.tabs = {"all"} \cup {domains[i] : i \in 1..Len(domains)}]

\* renderDomainTabs up to its first await (lines 237-253), for call k
renderDomainTabs(p, k, domains) ==
  IF Len(domains) <= 1
  THEN RenderReturns([p EXCEPT !.display = "none", !.selectedDomain = NULL], k)
  ELSE LET p1 == [p EXCEPT !.display = "flex"]
       IN IF ~p1.domainAutoSelected /\ p1.selectedDomain = NULL
          THEN [p1 EXCEPT !.renders[k].pc = "tabsQuery", !.renders[k].domains = domains]
          ELSE RenderReturns(WriteTabs(p1, domains), k)

\* renderDomainTabs after `await getCurrentTabDomain()` (lines 254-300)
AutoSelect(p, k, currentDomain) ==
  LET domains == p.renders[k].domains
      inList == \E i \in 1..Len(domains) : domains[i] = currentDomain
      p1 == [p EXCEPT !.selectedDomain = IF currentDomain # NULL /\ inList
                                         THEN currentDomain ELSE domains[1],
                      !.domainAutoSelected = TRUE]
  IN RenderReturns(WriteTabs(p1, domains), k)

\* the click handler of a domain tab up to its `await renderEvents()`
\* (lines 288-293)
TabClicked(p, tab) ==
  renderEvents([p EXCEPT !.selectedDomain = IF tab = "all" THEN NULL ELSE tab,
                         !.domainAutoSelected = TRUE,
                         !.userChoice = tab], "click")

\* the Clear handler after `await clearEvents()` (lines 544-547): the
\* selection is reset, which withdraws what the user chose before
ClearReset(p, k) ==
  [p EXCEPT !.selectedDomain = NULL, !.userChoice = "none",
            !.renders[k] = [pc |-> "getEvents", by |-> "clear", domains |-> <<>>]]

\* the document is ready: the handler of line 520 runs up to the getEvents
\* call of its first renderEvents()
DOMContentLoaded ==
  /\ popup.phase = "init"
  /\ popup' = renderEvents([popup EXCEPT !.phase = "loading"], "init")
  /\ UNCHANGED <<bgVars, page>>

\* setInterval(renderEvents, 2000) fires (line 578)
IntervalTick ==
  /\ popup.phase = "ready"
  /\ Len(popup.renders) < MaxRenders
  /\ popup' = renderEvents(popup, "interval")
  /\ UNCHANGED <<bgVars, page>>

\* the user types in the search box (lines 527-532)
SearchInput ==
  /\ popup.phase = "ready"
  /\ Len(popup.renders) < MaxRenders
  /\ popup' = renderEvents(popup, "search")
  /\ UNCHANGED <<bgVars, page>>

\* the worker answers the getEvents message of call k with events of the
\* domains in S
GetEventsReplies(k, S) ==
  /\ k \in 1..Len(popup.renders)
  /\ popup.renders[k].pc = "getEvents"
  /\ popup' = renderDomainTabs(popup, k, getUniqueDomains(S))
  /\ UNCHANGED <<bgVars, page>>

\* chrome.tabs.query answers call k
TabsQueryReplies(k, currentDomain) ==
  /\ k \in 1..Len(popup.renders)
  /\ popup.renders[k].pc = "tabsQuery"
  /\ popup' = AutoSelect(popup, k, currentDomain)
  /\ UNCHANGED <<bgVars, page>>

\* the user clicks a tab that is on display
ClickTab(tab) ==
  /\ popup.display = "flex"
  /\ tab \in popup.tabs
  /\ Len(popup.renders) < MaxRenders
  /\ popup' = TabClicked(popup, tab)
  /\ UNCHANGED <<bgVars, page>>

\* the user clicks Clear: the handler waits for clearEvents() (lines 542-543)
ClickClear ==
  /\ popup.phase = "ready"
  /\ Len(popup.renders) < MaxRenders
  /\ popup' = [popup EXCEPT !.renders = Append(@, [pc |-> "clearEvents", by |-> "clear",
                                                    domains |-> <<>>])]
  /\ UNCHANGED <<bgVars, page>>

\* the worker answers the clearEvents message of handler k
ClearReplies(k) ==
  /\ k \in 1..Len(popup.renders)
  /\ popup.renders[k].pc = "clearEvents"
  /\ popup' = ClearReset(popup, k)
  /\ UNCHANGED <<bgVars, page>>

NextPopup ==
  \/ DOMContentLoaded
  \/ IntervalTick
  \/ SearchInput
  \/ \E k \in 1..MaxRenders, S \in SUBSET Domains : GetEventsReplies(k, S)
  \/ \E k \in 1..MaxRenders, d \in TabDomains : TabsQueryReplies(k, d)
  \/ \E tab \in {"all"} \cup Domains : ClickTab(tab)
  \/ ClickClear
  \/ \E k \in 1..MaxRenders : ClearReplies(k)

SpecPopup == InitIdle /\ [][NextPopup]_vars

\* C31 (the domain selection is sticky): once the user has clicked the 'All'
\* tab, selectedDomain is null in every state until a domain tab is clicked,
\* and once the user has clicked a domain tab, that domain is selectedDomain
\* in every state until another tab is clicked, whatever renders happen.
C31_StickySelection ==
  /\ popup.userChoice = "all" => popup.selectedDomain = NULL
  /\ popup.userChoice \in Domains => popup.selectedDomain = popup.userChoice

\* ---------------------------------------------------------- injected.ts

\* most calls the page makes to window.fetch
MaxFetches == 2

\* the URLs the page fetches: a PostHog capture endpoint with gzip-js
\* compression, and another address
FetchUrls == {"https://ph.example/e/?compression=gzip-js", "https://api.example/data"}

\* url.includes('/e') && url.includes('compression=gzip-js') (line 13)
IncludesBoth(url) == url = "https://ph.example/e/?compression=gzip-js"

\* the first argument of fetch: a string, a URL, a Request, or another object
\* that fetch converts to a string itself, such as window.location
FetchInputs ==
  [kind : {"string", "URL", "Request", "Location"}, url : FetchUrls]

\* the second argument of fetch: not given, or an object with method and
\* body; a body is a Blob, an ArrayBuffer or a string
FetchInits ==
  [given : {FALSE}, method : {UNDEFINED}, body : {UNDEFINED}] \cup
  [given : {TRUE}, method : {"GET", "POST"}, body : {UNDEFINED}] \cup
  [given : {TRUE}, method : {"POST"}, body : {"Blob", "ArrayBuffer", "text"}]

\* line 9: typeof input === 'string' ? input : input instanceof URL ?
\* input.href : input.url
UrlOf(input) ==
  IF input.kind \in {"string", "URL", "Request"} THEN input.url ELSE UNDEFINED

\* the filter of lines 11-13, for a url that is a string
Intercepted(url, init) ==
  /\ IncludesBoth(url)
  /\ init.method = "POST"
  /\ init.body # UNDEFINED

\* line 34: originalFetch.call(this, input, init); the wrapper's promise then
\* follows the promise originalFetch returned
Forward(c) ==
  [c EXCEPT !.pc = "forwarded", !.forwarded = @ + 1,
            !.args = <<c.input, c.init>>, !.original = "pending"]

\* lines 21-31 once bodyData is known: the CustomEvent is dispatched, or
\* building it throws and the catch block logs the error; then line 34
DispatchAndForward(c, threw) ==
  Forward([c EXCEPT !.dispatched = IF threw THEN @ ELSE @ + 1])

\* the wrapper from its call to its first await or its return (lines 5-35)
WrappedFetch(input, init, threw) ==
  LET url == UrlOf(input)
      c == [input |-> input, init |-> init, pc |-> "called", forwarded |-> 0,
            args |-> <<>>, dispatched |-> 0, outcome |-> "pending", original |-> "none"]
  IN IF url = UNDEFINED
     THEN \* url.includes is read off undefined: TypeError, the promise rejects
          [c EXCEPT !.pc = "threw", !.outcome = "rejected"]
     ELSE IF ~Intercepted(url, init) THEN Forward(c)
     ELSE IF init.body = "Blob" THEN [c EXCEPT !.pc = "reading"]
     ELSE DispatchAndForward(c, threw)

\* the page calls window.fetch(input, init); for a body that is neither a Blob
\* nor an ArrayBuffer, new Uint8Array(bodyData) may throw
Fetch(input, init) ==
  /\ Len(page.calls) < MaxFetches
  /\ \E threw \in BOOLEAN :
       /\ threw => init.body = "text"
       /\ page' = [page EXCEPT !.calls = Append(@, WrappedFetch(input, init, threw))]
  /\ UNCHANGED <<bgVars, popup>>

\* init.body.arrayBuffer() settles for call k (lines 16-17): resolved, the
\* event is dispatched; rejected, the catch block logs the error
BodyRead(k, ok) ==
  /\ k \in 1..Len(page.calls)
  /\ page.calls[k].pc = "reading"
  /\ page' = [page EXCEPT !.calls[k] = DispatchAndForward(@, ~ok)]
  /\ UNCHANGED <<bgVars, popup>>

\* the promise originalFetch returned for call k settles
OriginalSettles(k, result) ==
  /\ k \in 1..Len(page.calls)
  /\ page.calls[k].pc = "forwarded"
  /\ page' = [page EXCEPT !.calls[k].pc = "settled",
                          !.calls[k].original = result,
                          !.calls[k].outcome = result]
  /\ UNCHANGED <<bgVars, popup>>

NextFetch ==
  \/ \E input \in FetchInputs, init \in FetchInits : Fetch(input, init)
  \/ \E k \in 1..MaxFetches, ok \in BOOLEAN : BodyRead(k, ok)
  \/ \E k \in 1..MaxFetches, result \in {"resolved", "rejected"} : OriginalSettles(k, result)

SpecFetch == InitIdle /\ [][NextFetch]_vars

\* C32 (fetch passthrough): every call of the wrapped window.fetch that is
\* not waiting for the body to be read has called the original fetch exactly
\* once, with the input and the init it was given, and a call that has settled
\* settled as the original did; no call reaches the original fetch twice.
C32_FetchPassthrough ==
  \A k \in 1..Len(page.calls) :
    LET c == page.calls[k]
    IN /\ c.forwarded <= 1
       /\ c.pc # "reading" =>
            /\ c.forwarded = 1
            /\ c.args = <<c.input, c.init>>
       /\ c.outcome # "pending" => c.outcome = c.original
====
